---------------------------- MODULE Spec2Model ----------------------------
(***************************************************************************)
(* Model of web-fetch-mcp: the browser session manager (browser.ts), the   *)
(* page-type classifier and the scraping entry points (web-scraper.ts).    *)
(*                                                                         *)
(* Specifications sharing the module:                                      *)
(*   Spec          concurrent calls of the functions browser.ts exports    *)
(*   SpecScrape    concurrent calls of the functions web-scraper.ts exports *)
(*   SpecClassify  detectPageType applied to every document checked        *)
(*   SpecLinks     the link extraction of fetchLinks on anchor lists       *)
(*   SpecSummary   the extraction and truncation of fetchPageSummary       *)
(*   SpecText      the text pipeline of fetchPageText on body texts        *)
(*   SpecTools     concurrent calls of the tools index.ts registers        *)
(*   SpecRender    getRenderedHtml calls with a configured timeout         *)
(*   SpecSeq       one caller's getBrowser / closeBrowser calls in series  *)
(***************************************************************************)
EXTENDS Integers, Sequences, FiniteSets, TLC

VARIABLES
    browser,        \* browser.ts:48  the module-level singleton (NoBrowser or a process id)
    stealthScript,  \* browser.ts:49  memoized stealth script body (Null or "body")
    procs,          \* the rendering-engine processes launched so far, by id
    pages,          \* the tabs opened so far, by id, each with the number of
                    \* getBrowser calls that returned it
    stealthFetches, \* number of network fetches of the stealth script issued
    tasks,          \* the asynchronous calls in flight, one record per caller slot
    calls,          \* number of calls started (bounded by MaxCalls)
    cdoc,           \* SpecClassify: the document handed to detectPageType
    cres,           \* SpecClassify: its result (NoResult before the call)
    ldoc,           \* SpecLinks: the anchors of the document handed to extraction
    lres,           \* SpecLinks: the returned link list (NoResult before the call)
    sdoc,           \* SpecSummary: the document and caps handed to fetchPageSummary
    sres,           \* SpecSummary: the returned summary (NoResult before the call)
    tdoc,           \* SpecText: the body text handed to the text pipeline
    tres            \* SpecText: the returned text (NoResult before the call)

vars == <<browser, stealthScript, procs, pages, stealthFetches, tasks, calls,
          cdoc, cres, ldoc, lres, sdoc, sres, tdoc, tres>>

browserVars == <<browser, stealthScript, procs, pages, stealthFetches, tasks, calls>>
classifyVars == <<cdoc, cres>>
linkVars == <<ldoc, lres>>
summaryVars == <<sdoc, sres>>
textVars == <<tdoc, tres>>
pureVars == <<cdoc, cres, ldoc, lres, sdoc, sres, tdoc, tres>>

Null == "null"
Undefined == "undefined"
NoResult == [none |-> TRUE]

\* An optional numeric argument (linkCount?, imageCount?, timeout?): left out,
\* or a number
NoCount == [given |-> FALSE, n |-> 0]

Count(c) == [given |-> TRUE, n |-> c]

Min(a, b) == IF a <= b THEN a ELSE b

(***************************************************************************)
(* PageTypeClassifier: detectPageType (web-scraper.ts:228-331)             *)
(*                                                                         *)
(* A document is the record of what the cheerio selectors and the regular  *)
(* expressions of detectPageType observe in the HTML string:               *)
(*   mountPoint    some element matches #id or [id*="id"] for a mount id   *)
(*   hydration     the set of hydrationPatterns whose regex matches        *)
(*   reactMarker   [data-reactroot] or [data-reactid] is present           *)
(*   ssrMarker     [data-server-rendered] is present                       *)
(*   ngVersion     [ng-version] is present                                 *)
(*   generator     content of meta[name="generator"] ("" when absent)      *)
(*   bodyTextLen   $("body").text().trim().length                          *)
(*   scriptCount   $("script").length                                      *)
(*   scriptTotalLength  sum of the scripts' inner HTML lengths             *)
(*   noscriptHint  noscript text mentions "javascript" and "enable"        *)
(*   bodyChildren  $("body").children().length                             *)
(***************************************************************************)

\* web-scraper.ts:244-251, in array order
hydrationPatterns ==
    <<"__NEXT_DATA__", "__NUXT__", "__INITIAL_STATE__", "__APOLLO_STATE__",
      "__REDUX_STATE__", "__VUE__">>

HydrationSet == {hydrationPatterns[i] : i \in 1..Len(hydrationPatterns)}

\* The pattern sources that contain "NEXT" / "NUXT" (p.source.includes, lines 319, 321)
SourceIncludesNEXT(p) == p = "__NEXT_DATA__"
SourceIncludesNUXT(p) == p = "__NUXT__"

\* web-scraper.ts:275: the names the generator regex captures
GeneratorNames == {"Next.js", "Nuxt", "Gatsby", "Vite", "Astro", "SvelteKit", "Remix"}

\* Bound: at most this many hydration patterns match in one document checked
MaxHydration == 3

\* Generator contents of the documents checked: absent, an unknown generator,
\* and known framework names
GeneratorContents == {"", "WordPress", "Gatsby", "Nuxt", "Next.js"}

\* Body text lengths on both sides of the thresholds 50, 100 and 500
BodyTextLens == {0, 50, 100, 501}

\* <<scriptCount, scriptTotalLength>> on both sides of the thresholds 3 and 50000
ScriptProfiles == {<<0, 0>>, <<3, 0>>, <<1, 50001>>, <<3, 50001>>}

\* Body child counts on both sides of the thresholds 0 and 2
BodyChildCounts == {0, 2, 3}

\* The sets of pattern matches of the documents checked
HydrationChoices == {x \in SUBSET HydrationSet : Cardinality(x) <= MaxHydration}

\* d is one of the documents checked
IsDoc(d) ==
    \E mp \in BOOLEAN, h \in HydrationChoices, r \in BOOLEAN, s \in BOOLEAN,
       ng \in BOOLEAN, g \in GeneratorContents, bl \in BodyTextLens,
       sp \in ScriptProfiles, ns \in BOOLEAN, bc \in BodyChildCounts :
        d = [mountPoint |-> mp, hydration |-> h, reactMarker |-> r, ssrMarker |-> s,
             ngVersion |-> ng, generator |-> g, bodyTextLen |-> bl,
             scriptCount |-> sp[1], scriptTotalLength |-> sp[2],
             noscriptHint |-> ns, bodyChildren |-> bc]

\* lines 234-237
hasMountPoint(doc) == doc.mountPoint

\* line 252: hydrationPatterns.filter((p) => p.test(html)), array order kept
hydrationMatches(doc) ==
    SelectSeq(hydrationPatterns, LAMBDA p : p \in doc.hydration)

\* lines 273-276: generator.match(/(Next\.js|Nuxt|...)/i); Null when no match,
\* else the captured name
frameworkMatch(doc) ==
    IF doc.generator \in GeneratorNames THEN doc.generator ELSE Null

\* lines 238-241
mountPointScore(doc) == IF hasMountPoint(doc) THEN 3 ELSE 0

\* lines 253-256
hydrationScore(doc) ==
    IF Len(hydrationMatches(doc)) > 0 THEN Len(hydrationMatches(doc)) * 2 ELSE 0

\* lines 259-270
markerScore(doc) ==
    (IF doc.reactMarker THEN 2 ELSE 0)
    + (IF doc.ssrMarker THEN 1 ELSE 0)
    + (IF doc.ngVersion THEN 1 ELSE 0)

\* lines 277-280
generatorScore(doc) == IF frameworkMatch(doc) # Null THEN 2 ELSE 0

\* lines 290-297
scriptRatioScore(doc) ==
    (IF doc.bodyTextLen < 100 /\ doc.scriptCount >= 3 THEN 2 ELSE 0)
    + (IF doc.scriptTotalLength > 50000 /\ doc.bodyTextLen < 500 THEN 2 ELSE 0)

\* lines 300-304
noscriptScore(doc) == IF doc.noscriptHint THEN 1 ELSE 0

emptyBodyScore_two(doc) ==
    IF doc.bodyChildren = 0 \/ (doc.bodyChildren <= 2 /\ doc.bodyTextLen < 50)
    THEN 2 ELSE 0

\* lines 307-311
emptyBodyScore(doc) ==
    IF doc.bodyChildren = 0 \/ (doc.bodyChildren <= 2 /\ doc.bodyTextLen < 50)
    THEN 3 ELSE 0

\* the running `score` of lines 231-311
pageScore(doc) ==
    mountPointScore(doc) + hydrationScore(doc) + markerScore(doc)
    + generatorScore(doc) + scriptRatioScore(doc) + noscriptScore(doc)
    + emptyBodyScore(doc)

\* Confidences are rationals, kept in thousandths (0.3 is 300).
confidenceOf_uncapped(score) == score * 100

\* line 314: Math.min(score / 10, 1)
confidenceOf(score) == Min(score * 100, 1000)

\* line 327: Math.round(confidence * 100) / 100 (round half up to 2 decimals)
round2(c) == ((c + 5) \div 10) * 10

isDynamicOf_half(confidence) == confidence >= 500

\* line 315: confidence >= 0.3, on the unrounded confidence
isDynamicOf(confidence) == confidence >= 300

\* lines 318-323.  `||` binds tighter than `?:`, so the expression parses as
\* (frameworkMatch?.[1] || find(NEXT)) ? "Next.js" : (find(NUXT) ? "Nuxt" : undefined)
detectedFramework(doc) ==
    IF frameworkMatch(doc) # Null
       \/ \E i \in 1..Len(hydrationMatches(doc)) :
              SourceIncludesNEXT(hydrationMatches(doc)[i])
    THEN "Next.js"
    ELSE IF \E i \in 1..Len(hydrationMatches(doc)) :
                SourceIncludesNUXT(hydrationMatches(doc)[i])
         THEN "Nuxt"
         ELSE Undefined

\* the `hints` pushed along the way (lines 240-310), in push order
hintsOf(doc) ==
    (IF hasMountPoint(doc) THEN <<"mount point">> ELSE <<>>)
    \o (IF Len(hydrationMatches(doc)) > 0 THEN <<"hydration data">> ELSE <<>>)
    \o (IF doc.reactMarker THEN <<"React marker">> ELSE <<>>)
    \o (IF doc.ssrMarker THEN <<"Vue SSR marker">> ELSE <<>>)
    \o (IF doc.ngVersion THEN <<"Angular version">> ELSE <<>>)
    \o (IF frameworkMatch(doc) # Null THEN <<"framework">> ELSE <<>>)
    \o (IF doc.bodyTextLen < 100 /\ doc.scriptCount >= 3
        THEN <<"little body, many scripts">> ELSE <<>>)
    \o (IF doc.scriptTotalLength > 50000 /\ doc.bodyTextLen < 500
        THEN <<"scripts outweigh body">> ELSE <<>>)
    \o (IF doc.noscriptHint THEN <<"noscript asks for JavaScript">> ELSE <<>>)
    \o (IF emptyBodyScore(doc) > 0 THEN <<"body almost empty">> ELSE <<>>)

\* lines 228-331
detectPageType(doc) ==
    [isDynamic |-> isDynamicOf(confidenceOf(pageScore(doc))),
     confidence |-> round2(confidenceOf(pageScore(doc))),
     hints |-> hintsOf(doc),
     framework |-> detectedFramework(doc)]


(***************************************************************************)
(* BrowserSessionManager (browser.ts) and the scraping entry points        *)
(* (web-scraper.ts) as asynchronous calls.  Every `await` is a point where *)
(* another call's continuation may run; the code between two awaits is one *)
(* atomic action.                                                          *)
(***************************************************************************)

\* The callers that may have a call in flight at the same time
Callers == {"a", "b"}

\* Bound: total number of browser.ts calls started in one behaviour of Spec
MaxCalls == 2

\* Bound: total number of web-scraper.ts calls started in one behaviour of SpecScrape
MaxScrapes == 1

NoBrowser == 0

\* The statically fetched HTML a URL may answer with, and what the classifier sees
SampleHtml == {"article", "spaShell"}

DocOf(html) ==
    IF html = "spaShell"
    THEN [mountPoint |-> TRUE, hydration |-> {}, reactMarker |-> FALSE,
          ssrMarker |-> FALSE, ngVersion |-> FALSE, generator |-> "",
          bodyTextLen |-> 0, scriptCount |-> 3, scriptTotalLength |-> 0,
          noscriptHint |-> FALSE, bodyChildren |-> 2]
    ELSE [mountPoint |-> FALSE, hydration |-> {}, reactMarker |-> FALSE,
          ssrMarker |-> FALSE, ngVersion |-> FALSE, generator |-> "WordPress",
          bodyTextLen |-> 501, scriptCount |-> 0, scriptTotalLength |-> 0,
          noscriptHint |-> FALSE, bodyChildren |-> 3]

\* forceHeadless?: boolean (web-scraper.ts:162, 191)
ForceHeadlessArgs == {"undefined", "true", "false"}

ScrapeOps == {"fetchLinks", "fetchPageText"}
PreviewOps == {"fetchPageSummary", "fetchPageMetadata"}
RenderOps == ScrapeOps \cup {"getRenderedHtml"}

\* The positions of a call inside createBrowser (browser.ts:91-136) and up to the
\* assignment of the singleton in getBrowser (browser.ts:150)
CreatePcs ==
    {"launch", "newPage", "setUserAgent", "setRequestInterception",
     "stealthFetch", "stealthText", "addScriptTag", "evaluateOnNewDocument",
     "assign"}

IdleTask ==
    [pc |-> "idle", op |-> "none", forceHeadless |-> "undefined",
     stealth |-> TRUE, html |-> "none", inst |-> 0, page |-> 0,
     finalHtml |-> "none", outcome |-> "none",
     tool |-> "none", timeout |-> NoCount, navTimeout |-> NoCount]

connected(p) == procs[p].status = "running"

\* The tabs of process p disappear with it
ClosePagesOf(p) ==
    [i \in 1..Len(pages) |->
        IF pages[i].proc = p THEN [pages[i] EXCEPT !.open = FALSE] ELSE pages[i]]

CanStart(t) == tasks[t].pc \in {"idle", "done"} /\ calls < MaxCalls

CanStartScrape(t) == tasks[t].pc \in {"idle", "done"} /\ calls < MaxScrapes

\* The call's locals (config, instance) die with it; its page is remembered
Finish(tk, outcome) ==
    [tk EXCEPT !.pc = "done", !.outcome = outcome, !.stealth = TRUE,
               !.timeout = NoCount, !.navTimeout = NoCount,
               !.inst = IF tk.op = "getBrowser" /\ outcome = "ok" THEN tk.inst ELSE 0]

Throw(t, err) ==
    tasks' = [tasks EXCEPT ![t] = Finish(tasks[t], err)]

Goto(t, pc) == tasks' = [tasks EXCEPT ![t].pc = pc]

InitBrowser ==
    /\ browser = NoBrowser
    /\ stealthScript = Null
    /\ procs = <<>>
    /\ pages = <<>>
    /\ stealthFetches = 0
    /\ tasks = [t \in Callers |-> IdleTask]
    /\ calls = 0

InitClassifyIdle == cdoc = NoResult /\ cres = NoResult
InitLinksIdle == ldoc = NoResult /\ lres = NoResult
InitSummaryIdle == sdoc = NoResult /\ sres = NoResult
InitTextIdle == tdoc = NoResult /\ tres = NoResult

\* What getBrowserEnter does when only `browser === null` is tested
getBrowserEnter_nullOnly(t, tk) ==
    IF browser = NoBrowser
    THEN tasks' = [tasks EXCEPT ![t] = [tk EXCEPT !.pc = "launch"]]
    ELSE tasks' = [tasks EXCEPT ![t] = [tk EXCEPT !.pc = "reusePage", !.inst = browser]]

\* browser.ts:148-154, from the entry of getBrowser to its first await: the
\* singleton is tested and either puppeteer.launch (through createBrowser,
\* lines 70-91) or browser.newPage is issued
getBrowserEnter(t, tk) ==
    IF browser = NoBrowser \/ ~connected(browser)
    THEN tasks' = [tasks EXCEPT ![t] = [tk EXCEPT !.pc = "launch"]]
    ELSE tasks' = [tasks EXCEPT ![t] = [tk EXCEPT !.pc = "reusePage",
                                                !.inst = browser]]


\* web-scraper.ts:167, 196: forceHeadless ?? pageType.isDynamic
useHeadless_or(forceHeadless, isDynamic) ==
    forceHeadless = "true" \/ isDynamic

useHeadless(forceHeadless, isDynamic) ==
    IF forceHeadless = "undefined" THEN isDynamic ELSE forceHeadless = "true"

------------------------------------------------------------------------------
(* Calls into web-scraper.ts *)

\* fetchLinks / fetchPageText are called (web-scraper.ts:160-164, 189-193):
\* fetch(url) is issued
StartScrape(t) ==
    /\ CanStartScrape(t)
    /\ \E op \in ScrapeOps, fh \in ForceHeadlessArgs :
          tasks' = [tasks EXCEPT ![t] =
                        [IdleTask EXCEPT !.pc = "fetch", !.op = op,
                                         !.forceHeadless = fh]]
    /\ calls' = calls + 1
    /\ UNCHANGED <<browser, stealthScript, procs, pages, stealthFetches, pureVars>>

\* fetchPageSummary / fetchPageMetadata are called (web-scraper.ts:63-68, 105-106)
StartPreview(t) ==
    /\ CanStartScrape(t)
    /\ \E op \in PreviewOps :
          tasks' = [tasks EXCEPT ![t] = [IdleTask EXCEPT !.pc = "fetch", !.op = op]]
    /\ calls' = calls + 1
    /\ UNCHANGED <<browser, stealthScript, procs, pages, stealthFetches, pureVars>>

\* The static fetch of any of the four entry points fails (network error)
FetchFailed(t) ==
    /\ tasks[t].pc = "fetch"
    /\ Throw(t, "error:fetch")
    /\ UNCHANGED <<browser, stealthScript, procs, pages, stealthFetches, calls, pureVars>>

\* web-scraper.ts:164-168 (fetchLinks) and 193-197 (fetchPageText): the body
\* arrives, is classified, and either is handed to extraction or
\* getRenderedHtml(url) is called, which enters getBrowser (browser.ts:217, 148)
ScrapeFetched(t) ==
    /\ tasks[t].pc = "fetch"
    /\ tasks[t].op \in ScrapeOps
    /\ \E html \in SampleHtml :
          LET pageType == detectPageType(DocOf(html))
              tk == [tasks[t] EXCEPT !.html = html]
          IN IF useHeadless(tasks[t].forceHeadless, pageType.isDynamic)
             THEN getBrowserEnter(t, tk)
             ELSE tasks' = [tasks EXCEPT ![t] =
                               Finish([tk EXCEPT !.finalHtml = html], "ok")]
    /\ UNCHANGED <<browser, stealthScript, procs, pages, stealthFetches, calls, pureVars>>

\* What ScrapeFetched does, applied to a preview call: render when the
\* classifier marks the page dynamic
PreviewFetched_autoRender(t) ==
    /\ tasks[t].pc = "fetch"
    /\ tasks[t].op \in PreviewOps
    /\ \E html \in SampleHtml :
          LET pageType == detectPageType(DocOf(html))
              tk == [tasks[t] EXCEPT !.html = html]
          IN IF pageType.isDynamic
             THEN getBrowserEnter(t, tk)
             ELSE tasks' = [tasks EXCEPT ![t] =
                               Finish([tk EXCEPT !.finalHtml = html], "ok")]
    /\ UNCHANGED <<browser, stealthScript, procs, pages, stealthFetches, calls, pureVars>>

\* web-scraper.ts:68-96 (fetchPageSummary) and 106-151 (fetchPageMetadata): the
\* body arrives and is handed to cheerio.load as it is
PreviewFetched(t) ==
    /\ tasks[t].pc = "fetch"
    /\ tasks[t].op \in PreviewOps
    /\ \E html \in SampleHtml :
          tasks' = [tasks EXCEPT ![t] =
                       Finish([tasks[t] EXCEPT !.html = html, !.finalHtml = html], "ok")]
    /\ UNCHANGED <<browser, stealthScript, procs, pages, stealthFetches, calls, pureVars>>

------------------------------------------------------------------------------
(* Calls into browser.ts *)

\* getRenderedHtml(url, config) is called directly (browser.ts:213-217)
StartGetRenderedHtml(t) ==
    /\ CanStart(t)
    /\ \E st \in BOOLEAN :
          getBrowserEnter(t, [IdleTask EXCEPT !.op = "getRenderedHtml", !.stealth = st])
    /\ calls' = calls + 1
    /\ UNCHANGED <<browser, stealthScript, procs, pages, stealthFetches, pureVars>>

\* getBrowser(config) is called directly (browser.ts:145-148)
callGetBrowser(t) ==
    /\ \E st \in BOOLEAN :
          getBrowserEnter(t, [IdleTask EXCEPT !.op = "getBrowser", !.stealth = st])
    /\ calls' = calls + 1
    /\ UNCHANGED <<browser, stealthScript, procs, pages, stealthFetches, pureVars>>

StartGetBrowser(t) == CanStart(t) /\ callGetBrowser(t)

\* browser.ts:91: puppeteer.launch resolves or rejects; on success
\* instance.newPage() is issued (line 94)
LaunchDone(t) ==
    /\ tasks[t].pc = "launch"
    /\ \/ /\ procs' = Append(procs, [status |-> "running"])
          /\ tasks' = [tasks EXCEPT ![t].pc = "newPage", ![t].inst = Len(procs) + 1]
       \/ /\ Throw(t, "error:launch")
          /\ UNCHANGED procs
    /\ UNCHANGED <<browser, stealthScript, pages, stealthFetches, calls, pureVars>>

\* browser.ts:94: instance.newPage() resolves or rejects; on success
\* page.setUserAgent is issued (line 98)
NewPageDone(t) ==
    /\ tasks[t].pc = "newPage"
    /\ \/ /\ connected(tasks[t].inst)
          /\ pages' = Append(pages, [proc |-> tasks[t].inst, open |-> TRUE, returns |-> 0])
          /\ tasks' = [tasks EXCEPT ![t].pc = "setUserAgent", ![t].page = Len(pages) + 1]
       \/ /\ Throw(t, "error:newPage")
          /\ UNCHANGED pages
    /\ UNCHANGED <<browser, stealthScript, procs, stealthFetches, calls, pureVars>>

\* browser.ts:98-105: setUserAgent resolves or rejects; on success
\* setRequestInterception(true) is issued
SetUserAgentDone(t) ==
    /\ tasks[t].pc = "setUserAgent"
    /\ \/ /\ connected(tasks[t].inst)
          /\ Goto(t, "setRequestInterception")
       \/ Throw(t, "error:setUserAgent")
    /\ UNCHANGED <<browser, stealthScript, procs, pages, stealthFetches, calls, pureVars>>

\* browser.ts:54-56, on entry of getStealthScript: the memo is tested and the
\* fetch issued when it is empty; browser.ts:127 when stealth is off
afterInterception(t) ==
    IF tasks[t].stealth
    THEN IF stealthScript = Null
         THEN /\ stealthFetches' = stealthFetches + 1
              /\ Goto(t, "stealthFetch")
         ELSE /\ Goto(t, "addScriptTag")
              /\ UNCHANGED stealthFetches
    ELSE /\ Goto(t, "evaluateOnNewDocument")
         /\ UNCHANGED stealthFetches

\* browser.ts:105-122: setRequestInterception resolves or rejects; on success
\* the request handler is installed and the stealth branch is taken
SetRequestInterceptionDone(t) ==
    /\ tasks[t].pc = "setRequestInterception"
    /\ \/ /\ connected(tasks[t].inst)
          /\ afterInterception(t)
       \/ /\ Throw(t, "error:setRequestInterception")
          /\ UNCHANGED stealthFetches
    /\ UNCHANGED <<browser, stealthScript, procs, pages, calls, pureVars>>

\* browser.ts:56-57: fetch(url) resolves (resp.text() is issued) or rejects
StealthFetchDone(t) ==
    /\ tasks[t].pc = "stealthFetch"
    /\ \/ Goto(t, "stealthText")
       \/ Throw(t, "error:stealthFetch")
    /\ UNCHANGED <<browser, stealthScript, procs, pages, stealthFetches, calls, pureVars>>

\* browser.ts:57-59, 122-123: resp.text() resolves, the memo is set and
\* page.addScriptTag is issued; or it rejects
StealthTextDone(t) ==
    /\ tasks[t].pc = "stealthText"
    /\ \/ /\ stealthScript' = "body"
          /\ Goto(t, "addScriptTag")
       \/ /\ Throw(t, "error:stealthFetch")
          /\ UNCHANGED stealthScript
    /\ UNCHANGED <<browser, procs, pages, stealthFetches, calls, pureVars>>

\* browser.ts:123-127: addScriptTag resolves or rejects; on success
\* evaluateOnNewDocument is issued
AddScriptTagDone(t) ==
    /\ tasks[t].pc = "addScriptTag"
    /\ \/ /\ connected(tasks[t].inst)
          /\ Goto(t, "evaluateOnNewDocument")
       \/ Throw(t, "error:addScriptTag")
    /\ UNCHANGED <<browser, stealthScript, procs, pages, stealthFetches, calls, pureVars>>

\* browser.ts:127-136: evaluateOnNewDocument resolves and createBrowser
\* returns { browser: instance, page }, or it rejects
EvaluateOnNewDocumentDone(t) ==
    /\ tasks[t].pc = "evaluateOnNewDocument"
    /\ \/ /\ connected(tasks[t].inst)
          /\ Goto(t, "assign")
       \/ Throw(t, "error:evaluateOnNewDocument")
    /\ UNCHANGED <<browser, stealthScript, procs, pages, stealthFetches, calls, pureVars>>

\* browser.ts:218, 186-196: getRenderedHtml calls navigateTo(page, url) with
\* no fourth argument, so page.goto is handed { waitUntil, timeout: undefined }
renderNavigate(tk) == [tk EXCEPT !.pc = "goto", !.navTimeout = NoCount]

\* Where getBrowser's caller continues: getRenderedHtml goes on to navigate
\* (browser.ts:217-218), a direct caller has its result
afterGetBrowser(t) ==
    IF tasks[t].op = "getBrowser"
    THEN tasks' = [tasks EXCEPT ![t] = Finish(tasks[t], "ok")]
    ELSE tasks' = [tasks EXCEPT ![t] = renderNavigate(tasks[t])]

\* browser.ts:149-151: the await of createBrowser resumes, the singleton is
\* assigned and the result returned
AssignBrowser(t) ==
    /\ tasks[t].pc = "assign"
    /\ browser' = tasks[t].inst
    /\ pages' = [pages EXCEPT ![tasks[t].page].returns = @ + 1]
    /\ afterGetBrowser(t)
    /\ UNCHANGED <<stealthScript, procs, stealthFetches, calls, pureVars>>

\* browser.ts:154-155: browser.newPage() on the reused singleton resolves or rejects
ReusePageDone(t) ==
    /\ tasks[t].pc = "reusePage"
    /\ \/ /\ connected(tasks[t].inst)
          /\ pages' = Append(pages, [proc |-> tasks[t].inst, open |-> TRUE, returns |-> 1])
          /\ IF tasks[t].op = "getBrowser"
             THEN tasks' = [tasks EXCEPT ![t] =
                               Finish([tasks[t] EXCEPT !.page = Len(pages) + 1], "ok")]
             ELSE tasks' = [tasks EXCEPT ![t] =
                               renderNavigate([tasks[t] EXCEPT !.page = Len(pages) + 1])]
       \/ /\ Throw(t, "error:newPage")
          /\ UNCHANGED pages
    /\ UNCHANGED <<browser, stealthScript, procs, stealthFetches, calls, pureVars>>

\* browser.ts:218-219, 196: page.goto resolves (page.content() is issued),
\* rejects, or times out
GotoDone(t) ==
    /\ tasks[t].pc = "goto"
    /\ \/ /\ connected(tasks[t].inst)
          /\ Goto(t, "content")
       \/ Throw(t, "error:navigation")
       \/ Throw(t, "error:timeout")
    /\ UNCHANGED <<browser, stealthScript, procs, pages, stealthFetches, calls, pureVars>>

\* browser.ts:219: page.content() resolves and getRenderedHtml returns the
\* rendered HTML (to fetchLinks / fetchPageText: web-scraper.ts:168-180,
\* 197-219), or it rejects
ContentDone(t) ==
    /\ tasks[t].pc = "content"
    /\ \/ /\ connected(tasks[t].inst)
          /\ tasks' = [tasks EXCEPT ![t] =
                            Finish([tasks[t] EXCEPT !.finalHtml = "rendered"], "ok")]
       \/ Throw(t, "error:content")
    /\ UNCHANGED <<browser, stealthScript, procs, pages, stealthFetches, calls, pureVars>>

\* closeBrowser() is called (browser.ts:172-174): browser.close() is issued on
\* the singleton, or nothing is done when it is empty
callCloseBrowser(t) ==
    /\ IF browser # NoBrowser
       THEN tasks' = [tasks EXCEPT ![t] =
                         [IdleTask EXCEPT !.pc = "closing", !.op = "closeBrowser",
                                          !.inst = browser]]
       ELSE tasks' = [tasks EXCEPT ![t] =
                         [IdleTask EXCEPT !.pc = "done", !.op = "closeBrowser",
                                          !.outcome = "ok"]]
    /\ calls' = calls + 1
    /\ UNCHANGED <<browser, stealthScript, procs, pages, stealthFetches, pureVars>>

StartCloseBrowser(t) == CanStart(t) /\ callCloseBrowser(t)

\* browser.ts:174: the engine process exits on browser.close()
CloseProcessExit(t) ==
    /\ tasks[t].pc = "closing"
    /\ procs' = [procs EXCEPT ![tasks[t].inst].status =
                    IF @ = "running" THEN "closed" ELSE @]
    /\ pages' = ClosePagesOf(tasks[t].inst)
    /\ Goto(t, "closed")
    /\ UNCHANGED <<browser, stealthScript, stealthFetches, calls, pureVars>>

\* browser.ts:174-175: the await of browser.close() resumes and the singleton
\* is cleared
CloseDone(t) ==
    /\ tasks[t].pc = "closed"
    /\ browser' = NoBrowser
    /\ tasks' = [tasks EXCEPT ![t] = Finish(tasks[t], "ok")]
    /\ UNCHANGED <<stealthScript, procs, pages, stealthFetches, calls, pureVars>>

\* The engine process dies or its connection drops: browser.connected
\* (browser.ts:148) becomes false
Disconnect(p) ==
    /\ connected(p)
    /\ procs' = [procs EXCEPT ![p].status = "crashed"]
    /\ pages' = ClosePagesOf(p)
    /\ UNCHANGED <<browser, stealthScript, stealthFetches, tasks, calls, pureVars>>

Init ==
    /\ InitBrowser /\ InitClassifyIdle /\ InitLinksIdle
    /\ InitSummaryIdle /\ InitTextIdle

\* The steps inside getBrowser / createBrowser / getRenderedHtml, whoever called
BrowserStep(t) ==
    \/ LaunchDone(t)
    \/ NewPageDone(t)
    \/ SetUserAgentDone(t)
    \/ SetRequestInterceptionDone(t)
    \/ StealthFetchDone(t)
    \/ StealthTextDone(t)
    \/ AddScriptTagDone(t)
    \/ EvaluateOnNewDocumentDone(t)
    \/ AssignBrowser(t)
    \/ ReusePageDone(t)
    \/ GotoDone(t)
    \/ ContentDone(t)

\* Concurrent calls of the functions browser.ts exports
Next ==
    \/ \E t \in Callers :
          \/ StartGetRenderedHtml(t)
          \/ StartGetBrowser(t)
          \/ StartCloseBrowser(t)
          \/ CloseProcessExit(t)
          \/ CloseDone(t)
          \/ BrowserStep(t)
    \/ \E p \in 1..Len(procs) : Disconnect(p)

Spec == Init /\ [][Next]_vars

\* Concurrent calls of the functions web-scraper.ts exports
NextScrape ==
    \/ \E t \in Callers :
          \/ StartScrape(t)
          \/ StartPreview(t)
          \/ FetchFailed(t)
          \/ ScrapeFetched(t)
          \/ PreviewFetched(t)
          \/ BrowserStep(t)
    \/ \E p \in 1..Len(procs) : Disconnect(p)

\* A session left behind by an earlier getRenderedHtml call with the default
\* configuration: the singleton is set, its process runs, the call's tab is
\* still open and the stealth script is memoized
WarmSession ==
    /\ browser = 1
    /\ stealthScript = "body"
    /\ procs = <<[status |-> "running"]>>
    /\ pages = <<[proc |-> 1, open |-> TRUE, returns |-> 1]>>
    /\ stealthFetches = 1
    /\ tasks = [t \in Callers |-> IdleTask]
    /\ calls = 0

\* The scraping calls start in a fresh process or after an earlier render
InitScrape ==
    /\ InitBrowser \/ WarmSession
    /\ InitClassifyIdle /\ InitLinksIdle
    /\ InitSummaryIdle /\ InitTextIdle

SpecScrape == InitScrape /\ [][NextScrape]_vars

------------------------------------------------------------------------------
(* The tools index.ts registers (index.ts:16-201) *)

\* The registered tools with the web-scraper.ts function each handler calls
\* and the forceHeadless argument it passes (index.ts:35, 78, 105, 137, 164, 190)
ToolCalls ==
    [fetch_page_summary |-> [op |-> "fetchPageSummary", forceHeadless |-> "undefined"],
     fetch_page_metadata |-> [op |-> "fetchPageMetadata", forceHeadless |-> "undefined"],
     fetch_links |-> [op |-> "fetchLinks", forceHeadless |-> "false"],
     fetch_links_headless |-> [op |-> "fetchLinks", forceHeadless |-> "true"],
     fetch_page_text |-> [op |-> "fetchPageText", forceHeadless |-> "false"],
     fetch_page_text_headless |-> [op |-> "fetchPageText", forceHeadless |-> "true"]]

Tools == DOMAIN ToolCalls

\* A client calls a tool: its handler calls the function, which issues the
\* static fetch
StartTool(t) ==
    /\ CanStartScrape(t)
    /\ \E tool \in Tools :
          tasks' = [tasks EXCEPT ![t] =
                        [IdleTask EXCEPT !.pc = "fetch", !.tool = tool,
                                         !.op = ToolCalls[tool].op,
                                         !.forceHeadless = ToolCalls[tool].forceHeadless]]
    /\ calls' = calls + 1
    /\ UNCHANGED <<browser, stealthScript, procs, pages, stealthFetches, pureVars>>

\* Concurrent tool calls of the MCP server
NextTools ==
    \/ \E t \in Callers :
          \/ StartTool(t)
          \/ FetchFailed(t)
          \/ ScrapeFetched(t)
          \/ PreviewFetched(t)
          \/ BrowserStep(t)
    \/ \E p \in 1..Len(procs) : Disconnect(p)

SpecTools == InitScrape /\ [][NextTools]_vars

------------------------------------------------------------------------------
(* Render calls with a configured timeout (browser.ts:28, 45, 213-220) *)

\* browser.ts:45: defaultConfig.timeout
DefaultTimeout == 30000

\* The config.timeout values checked: left out, or 5000 ms
ConfigTimeouts == {NoCount, Count(5000)}

\* browser.ts:70-74: mergedConfig.timeout of { ...defaultConfig, ...config }
mergedTimeout(timeout) == IF timeout.given THEN timeout ELSE Count(DefaultTimeout)

\* getRenderedHtml(url, { timeout }) is called (browser.ts:213-217)
StartRender(t) ==
    /\ CanStart(t)
    /\ \E timeout \in ConfigTimeouts :
          getBrowserEnter(t, [IdleTask EXCEPT !.op = "getRenderedHtml",
                                              !.timeout = timeout])
    /\ calls' = calls + 1
    /\ UNCHANGED <<browser, stealthScript, procs, pages, stealthFetches, pureVars>>

NextRender ==
    \/ \E t \in Callers :
          \/ StartRender(t)
          \/ BrowserStep(t)
    \/ \E p \in 1..Len(procs) : Disconnect(p)

SpecRender == Init /\ [][NextRender]_vars

------------------------------------------------------------------------------
(* One caller issuing getBrowser and closeBrowser calls one after another *)

\* Bound: the number of calls of the sequential caller
MaxSeqCalls == 4

SeqCaller == "a"

\* The caller awaits each call before it issues the next one
CanStartSeq == tasks[SeqCaller].pc \in {"idle", "done"} /\ calls < MaxSeqCalls

SeqGetBrowser == CanStartSeq /\ callGetBrowser(SeqCaller)

SeqCloseBrowser == CanStartSeq /\ callCloseBrowser(SeqCaller)

\* The steps inside getBrowser / createBrowser
GetBrowserStep(t) ==
    \/ LaunchDone(t)
    \/ NewPageDone(t)
    \/ SetUserAgentDone(t)
    \/ SetRequestInterceptionDone(t)
    \/ StealthFetchDone(t)
    \/ StealthTextDone(t)
    \/ AddScriptTagDone(t)
    \/ EvaluateOnNewDocumentDone(t)
    \/ AssignBrowser(t)
    \/ ReusePageDone(t)

NextSeq ==
    \/ SeqGetBrowser
    \/ SeqCloseBrowser
    \/ CloseProcessExit(SeqCaller)
    \/ CloseDone(SeqCaller)
    \/ GetBrowserStep(SeqCaller)
    \/ \E p \in 1..Len(procs) : Disconnect(p)

SpecSeq == Init /\ [][NextSeq]_vars

------------------------------------------------------------------------------
(* detectPageType on its own: every document checked is classified once *)

InitClassify ==
    /\ InitBrowser /\ InitLinksIdle
    /\ InitSummaryIdle /\ InitTextIdle
    /\ IsDoc(cdoc)
    /\ cres = NoResult

Classify ==
    /\ cres = NoResult
    /\ cres' = detectPageType(cdoc)
    /\ UNCHANGED <<cdoc, browserVars, linkVars, summaryVars, textVars>>

SpecClassify == InitClassify /\ [][Classify]_vars

------------------------------------------------------------------------------
(* The link extraction of fetchLinks on its own (web-scraper.ts:169-180) *)

\* Bound: the longest anchor list checked
MaxAnchors == 11

\* web-scraper.ts:94: the default cap of fetchPageSummary, links.slice(0, 10)
DefaultCap == 10

\* String.prototype.trim on the anchor texts used here
trim(text) == IF text = " " THEN "" ELSE text

\* The i-th anchor of the lists checked: hrefs repeat, every third anchor has
\* a title attribute, every other one only text
AnchorAt(i) ==
    [href |-> IF i % 2 = 0 THEN "/x" ELSE "/y",
     title |-> IF i % 3 = 0 THEN "T" ELSE Undefined,
     text |-> IF i % 4 = 0 THEN " " ELSE "text"]

\* Anchors that line 175 skips: no href attribute, or an empty one
SkippedAnchors ==
    {[href |-> Undefined, title |-> "T", text |-> "text"],
     [href |-> "", title |-> Undefined, text |-> "text"]}

\* n anchors in document order, the k-th (if any) replaced by a skipped one
AnchorList(n, k, skipped) ==
    [i \in 1..n |-> IF i = k THEN skipped ELSE AnchorAt(i)]

\* line 175: if (href)
hasHref(a) == a.href # Undefined /\ a.href # ""

\* lines 173-174: the pushed entry; attr("title") || text().trim()
linkOf(a) ==
    [title |-> IF a.title # Undefined /\ a.title # "" THEN a.title ELSE trim(a.text),
     href |-> a.href]

\* lines 171-178: $("a").each(...) pushes in document order
collectLinks(anchors) ==
    LET kept == SelectSeq(anchors, hasHref)
    IN [i \in 1..Len(kept) |-> linkOf(kept[i])]

\* line 180: return { links }
fetchLinksResult(anchors) == [links |-> collectLinks(anchors)]

InitLinks ==
    /\ InitBrowser /\ InitClassifyIdle
    /\ \E n \in 0..MaxAnchors, k \in 0..MaxAnchors, skipped \in SkippedAnchors :
          /\ k <= n
          /\ ldoc = AnchorList(n, k, skipped)
    /\ lres = NoResult
    /\ InitSummaryIdle /\ InitTextIdle

ExtractLinks ==
    /\ lres = NoResult
    /\ lres' = fetchLinksResult(ldoc)
    /\ UNCHANGED <<ldoc, browserVars, classifyVars, summaryVars, textVars>>

SpecLinks == InitLinks /\ [][ExtractLinks]_vars

------------------------------------------------------------------------------
(* The extraction and truncation of fetchPageSummary on its own             *)
(* (web-scraper.ts:70-96)                                                   *)

\* Bound: the longest anchor list handed to fetchPageSummary
MaxSummaryAnchors == 15

\* Bound: the longest image list handed to fetchPageSummary
MaxImages == 11

\* The linkCount / imageCount arguments checked
SummaryCaps == {NoCount} \cup {Count(c) : c \in {0, 1, 5, 10, 12}}

\* The i-th image of the lists checked: sources repeat, every other image has
\* an alt attribute, every third one a title attribute
ImageAt(i) ==
    [src |-> IF i % 2 = 0 THEN "/p.png" ELSE "/q.png",
     alt |-> IF i % 2 = 1 THEN "alt" ELSE Undefined,
     title |-> IF i % 3 = 0 THEN "T" ELSE Undefined]

\* An image that line 88 skips: no src attribute
SkippedImage == [src |-> Undefined, alt |-> "alt", title |-> Undefined]

\* m images in document order, the k-th (if any) replaced by the skipped one
ImageList(m, k) ==
    [i \in 1..m |-> IF i = k THEN SkippedImage ELSE ImageAt(i)]

\* line 88: if (src)
hasSrc(img) == img.src # Undefined /\ img.src # ""

\* lines 86-87: the pushed entry; attr("alt") || attr("title") || ""
imageOf(img) ==
    [title |-> IF img.alt # Undefined /\ img.alt # "" THEN img.alt
               ELSE IF img.title # Undefined /\ img.title # "" THEN img.title
               ELSE "",
     src |-> img.src]

\* lines 84-89: $("img").each(...) pushes in document order
collectImages(images) ==
    LET kept == SelectSeq(images, hasSrc)
    IN [i \in 1..Len(kept) |-> imageOf(kept[i])]

\* Array.prototype.slice(0, end) for an integer end
slice(list, end) ==
    LET n == Len(list)
        e == IF end < 0 THEN (IF n + end < 0 THEN 0 ELSE n + end) ELSE Min(end, n)
    IN SubSeq(list, 1, e)

\* The condition of `count ? ... : ...` (lines 94-95): undefined and 0 are falsy
truthy(count) == count.given /\ count.n # 0

\* lines 94-95: count ? list.slice(0, count) : list.slice(0, 10)
truncate(list, count) ==
    IF truthy(count) THEN slice(list, count.n) ELSE slice(list, DefaultCap)

\* lines 91-96: the returned summary (url and title left out)
fetchPageSummaryResult(doc) ==
    [links |-> truncate(collectLinks(doc.anchors), doc.linkCount),
     images |-> truncate(collectImages(doc.images), doc.imageCount)]

InitSummary ==
    /\ InitBrowser /\ InitClassifyIdle /\ InitLinksIdle /\ InitTextIdle
    /\ \E n \in 0..MaxSummaryAnchors, k \in {0, 2}, skipped \in SkippedAnchors,
          m \in 0..MaxImages, j \in {0, 1}, lc \in SummaryCaps, ic \in SummaryCaps :
          /\ k <= n /\ j <= m
          /\ sdoc = [anchors |-> AnchorList(n, k, skipped), images |-> ImageList(m, j),
                     linkCount |-> lc, imageCount |-> ic]
    /\ sres = NoResult

Summarize ==
    /\ sres = NoResult
    /\ sres' = fetchPageSummaryResult(sdoc)
    /\ UNCHANGED <<sdoc, browserVars, classifyVars, linkVars, textVars>>

SpecSummary == InitSummary /\ [][Summarize]_vars

------------------------------------------------------------------------------
(* The text pipeline of fetchPageText on its own (web-scraper.ts:201-219)   *)
(*                                                                          *)
(* A body text is a sequence of tokens.  One-character tokens:              *)
(*   "BS" backslash   "DQ" double quote   "n" "t" the letters n and t       *)
(*   "NL" newline     "TAB" tab           "SP" space                        *)
(*   "I"  one uppercase letter                                              *)
(* Tokens standing for a fixed substring that no step splits:               *)
(*   "W"  window.__VP_         "P"  __ = JSON.parse(        "C"  );         *)
(* Every other token ("a", "Hello", ...) is a word of other characters.     *)
(***************************************************************************)

\* Bound: the number of segments of the body texts enumerated
MaxTextLen == 4

\* The pieces the enumerated body texts are concatenated from: the single
\* characters the pipeline looks at, a word, and the head and the tail of a
\* hydration statement  window.__VP_I  and  __ = JSON.parse("a");
Segments ==
    {<<"BS">>, <<"DQ">>, <<"n">>, <<"t">>, <<"NL">>, <<"SP">>, <<"a">>,
     <<"W", "I">>, <<"P", "DQ", "a", "DQ", "C">>}

\* Longer body texts checked besides the enumerated ones:
\*   Hello\nWorld (literal backslash-n), three blank lines, End;
\*   a hydration statement whose JSON argument holds escaped quotes,
\*     window.__VP_I__ = JSON.parse("\"a\"");
\*   a hydration statement inside the name of another one
TextSamples ==
    {<<"Hello", "BS", "n", "World", "NL", "NL", "NL", "NL", "End">>,
     <<"a", "NL", "NL", "NL", "a">>,
     <<"a", "SP", "NL", "TAB", "NL", "SP", "a">>,
     <<"W", "I", "P", "DQ", "BS", "DQ", "a", "BS", "DQ", "DQ", "C">>,
     <<"W", "I", "W", "I", "P", "DQ", "a", "DQ", "C", "P", "DQ", "a", "DQ", "C">>}

RECURSIVE Concat(_)
\* The concatenation of a sequence of segments
Concat(segs) ==
    IF segs = <<>> THEN <<>> ELSE Head(segs) \o Concat(Tail(segs))

\* \s of the regular expressions, on the tokens used
Whitespace == {"SP", "TAB", "NL"}

\* The token at position i, "EOF" past the end
At(s, i) == IF i \in 1..Len(s) THEN s[i] ELSE "EOF"

RECURSIVE RunEnd(_, _, _)
\* The last position of the longest run of tokens of `set` that starts at
\* position i (i - 1 when s[i] is not in the set): a greedy X* or X+
RunEnd(s, i, set) ==
    IF At(s, i) \in set THEN RunEnd(s, i + 1, set) ELSE i - 1

RECURSIVE ReplacePairFrom(_, _, _, _, _)
\* text.replace(/xy/g, r) from position i on: matches are taken left to right
\* and the scan goes on after each match
ReplacePairFrom(s, i, x, y, r) ==
    IF i > Len(s) THEN <<>>
    ELSE IF At(s, i) = x /\ At(s, i + 1) = y
         THEN <<r>> \o ReplacePairFrom(s, i + 2, x, y, r)
         ELSE <<s[i]>> \o ReplacePairFrom(s, i + 1, x, y, r)

\* line 205: .replace(/\\"/g, '"')
unescapeQuote(s) == ReplacePairFrom(s, 1, "BS", "DQ", "DQ")

\* line 206: .replace(/\\\\/g, "\\")
unescapeBackslash(s) == ReplacePairFrom(s, 1, "BS", "BS", "BS")

\* line 207: .replace(/\\n/g, "\n")
unescapeNewline(s) == ReplacePairFrom(s, 1, "BS", "n", "NL")

\* line 208: .replace(/\\t/g, "\t")
unescapeTab(s) == ReplacePairFrom(s, 1, "BS", "t", "TAB")

\* line 211: the last position of a match of
\* /window\.__VP_[A-Z_]+__\s*=\s*JSON\.parse\(["'][^"']+["']\);?/ starting at
\* position i, 0 when there is none: [A-Z_]+ and [^"']+ are greedy, and giving
\* back tokens never helps either of them
vpMatchEnd(s, i) ==
    LET j == RunEnd(s, i + 1, {"I"})
        k == RunEnd(s, j + 3, {s[x] : x \in 1..Len(s)} \ {"DQ"})
    IN IF /\ At(s, i) = "W"
          /\ j >= i + 1
          /\ At(s, j + 1) = "P"
          /\ At(s, j + 2) = "DQ"
          /\ k >= j + 3
          /\ At(s, k + 1) = "DQ"
          /\ At(s, k + 2) = "C"
       THEN k + 2
       ELSE 0

RECURSIVE stripVPFrom(_, _)
\* lines 210-213: .replace(/window\.__VP_.../g, "") from position i on
stripVPFrom(s, i) ==
    IF i > Len(s) THEN <<>>
    ELSE IF vpMatchEnd(s, i) # 0
         THEN stripVPFrom(s, vpMatchEnd(s, i) + 1)
         ELSE <<s[i]>> \o stripVPFrom(s, i + 1)

RECURSIVE collapseAroundNewlinesFrom(_, _)
\* line 215: .replace(/\s*\n\s*/g, "\n") from position i on: a match starts at
\* the first token of a whitespace run that holds a newline and, \s matching
\* newlines too, takes the whole run
collapseAroundNewlinesFrom(s, i) ==
    IF i > Len(s) THEN <<>>
    ELSE LET e == RunEnd(s, i, Whitespace)
         IN IF \E x \in i..e : s[x] = "NL"
            THEN <<"NL">> \o collapseAroundNewlinesFrom(s, e + 1)
            ELSE <<s[i]>> \o collapseAroundNewlinesFrom(s, i + 1)

RECURSIVE collapseNewlineRunsFrom(_, _)
\* line 216: .replace(/\n{3,}/g, "\n\n") from position i on
collapseNewlineRunsFrom(s, i) ==
    IF i > Len(s) THEN <<>>
    ELSE LET e == RunEnd(s, i, {"NL"})
         IN IF e - i + 1 >= 3
            THEN <<"NL", "NL">> \o collapseNewlineRunsFrom(s, e + 1)
            ELSE <<s[i]>> \o collapseNewlineRunsFrom(s, i + 1)

RECURSIVE collapseSpacesFrom(_, _)
\* line 217: .replace(/[ \t]+/g, " ") from position i on
collapseSpacesFrom(s, i) ==
    IF i > Len(s) THEN <<>>
    ELSE LET e == RunEnd(s, i, {"SP", "TAB"})
         IN IF e >= i
            THEN <<"SP">> \o collapseSpacesFrom(s, e + 1)
            ELSE <<s[i]>> \o collapseSpacesFrom(s, i + 1)

\* line 218: .trim() of a token sequence
trimText(s) ==
    LET inner == {i \in 1..Len(s) : s[i] \notin Whitespace}
    IN IF inner = {} THEN <<>>
       ELSE SubSeq(s, CHOOSE i \in inner : \A x \in inner : i <= x,
                      CHOOSE i \in inner : \A x \in inner : i >= x)

\* lines 203-218: the replacements in the order of the chain
normalizeText(text) ==
    LET s1 == unescapeQuote(text)
        s2 == unescapeBackslash(s1)
        s3 == unescapeNewline(s2)
        s4 == unescapeTab(s3)
        s5 == stripVPFrom(s4, 1)
        s6 == collapseAroundNewlinesFrom(s5, 1)
        s7 == collapseNewlineRunsFrom(s6, 1)
        s8 == collapseSpacesFrom(s7, 1)
    IN trimText(s8)

\* lines 201-219: return { text: ... }
fetchPageTextResult(text) == [text |-> normalizeText(text)]

\* The body texts checked: up to MaxTextLen segments, or one of the samples
IsBodyText(text) ==
    \/ \E len \in 0..MaxTextLen : \E segs \in [1..len -> Segments] : text = Concat(segs)
    \/ text \in TextSamples

InitText ==
    /\ InitBrowser /\ InitClassifyIdle /\ InitLinksIdle /\ InitSummaryIdle
    /\ IsBodyText(tdoc)
    /\ tres = NoResult

NormalizeText ==
    /\ tres = NoResult
    /\ tres' = fetchPageTextResult(tdoc)
    /\ UNCHANGED <<tdoc, browserVars, classifyVars, linkVars, summaryVars>>

SpecText == InitText /\ [][NormalizeText]_vars

------------------------------------------------------------------------------
(* Claims *)

InCreate(t) == tasks[t].pc \in CreatePcs

\* C1 (Spec): single-flight session creation.  At most one createBrowser
\* (engine launch and setup) is in flight at any time: a getBrowser call that
\* finds the singleton empty while another call's launch is in flight awaits
\* that launch instead of issuing a second puppeteer.launch.
C1_SingleFlightLaunch ==
    Cardinality({t \in Callers : InCreate(t)}) <= 1

\* C2 (Spec): every page acquired for a render is closed when the call ends,
\* on each of the exit paths of getRenderedHtml: successful return,
\* navigation failure and navigation timeout.
C2_RenderPageClosedAtExit ==
    \A t \in Callers :
        ( /\ tasks[t].pc = "done"
          /\ tasks[t].op \in RenderOps
          /\ tasks[t].outcome \in {"ok", "error:navigation", "error:timeout"}
          /\ tasks[t].page # 0 )
        => ~pages[tasks[t].page].open

\* A step in which call t leaves createBrowser by a failure
CreationFails(t) ==
    /\ InCreate(t)
    /\ tasks'[t].pc = "done"
    /\ tasks'[t].outcome # "ok"

\* C3 (Spec): when session creation fails at any step, the singleton is empty
\* afterwards.  Stated for the failures that happen while the singleton holds
\* no connected session, so that no concurrently stored healthy session is
\* taken for a leftover.
C3_FailedCreationLeavesEmpty ==
    [][\A t \in Callers :
          (CreationFails(t) /\ (browser = NoBrowser \/ ~connected(browser)))
          => browser' = NoBrowser]_vars

\* The claim's render decision for a call: forceHeadless when supplied, the
\* classifier's verdict on the statically fetched HTML otherwise
C4_Decision(tk) ==
    \/ tk.forceHeadless = "true"
    \/ tk.forceHeadless = "undefined" /\ detectPageType(DocOf(tk.html)).isDynamic

\* C4 (SpecScrape): for fetchLinks and fetchPageText the HTML handed to
\* extraction is the rendered HTML exactly when forceHeadless (if supplied) or
\* else isDynamic says so, and the statically fetched HTML otherwise; a call
\* is inside the browser only when the decision is to render.
C4_RenderIffDecision ==
    \A t \in Callers :
        tasks[t].op \in ScrapeOps =>
            /\ (tasks[t].pc = "done" /\ tasks[t].outcome = "ok") =>
                  /\ (tasks[t].finalHtml = "rendered") = C4_Decision(tasks[t])
                  /\ tasks[t].finalHtml # "rendered" => tasks[t].finalHtml = tasks[t].html
            /\ tasks[t].pc \notin {"fetch", "done"} => C4_Decision(tasks[t])

\* C4 witness: forceHeadless = false on a page the classifier marks dynamic
\* ended with the static HTML
C4_Witness ==
    \E t \in Callers :
        /\ tasks[t].op = "fetchLinks" /\ tasks[t].pc = "done" /\ tasks[t].outcome = "ok"
        /\ tasks[t].forceHeadless = "false"
        /\ detectPageType(DocOf(tasks[t].html)).isDynamic
        /\ tasks[t].finalHtml = tasks[t].html

\* C5 (SpecScrape): a fetchPageSummary / fetchPageMetadata call never enters
\* getBrowser, holds no engine process and no page, and its result comes from
\* the statically fetched HTML.
C5_PreviewNeverRenders ==
    \A t \in Callers :
        tasks[t].op \in PreviewOps =>
            /\ tasks[t].pc \in {"fetch", "done"}
            /\ tasks[t].inst = 0 /\ tasks[t].page = 0
            /\ (tasks[t].pc = "done" /\ tasks[t].outcome = "ok") =>
                  tasks[t].finalHtml = tasks[t].html

\* C5 witness: a preview call on a page the classifier marks dynamic has ended
C5_Witness ==
    \E t \in Callers :
        /\ tasks[t].op \in PreviewOps /\ tasks[t].pc = "done" /\ tasks[t].outcome = "ok"
        /\ detectPageType(DocOf(tasks[t].html)).isDynamic

Classified == cres # NoResult

\* C6 (SpecClassify): the returned confidence lies in [0,1] and isDynamic
\* equals (returned confidence >= 0.3), which is (score >= 3).
C6_ConfidenceRange ==
    Classified =>
        /\ cres.confidence >= 0 /\ cres.confidence <= 1000
        /\ cres.isDynamic = (cres.confidence >= 300)
        /\ cres.isDynamic = (pageScore(cdoc) >= 3)

\* C6 witness: a classified document whose score exceeds 10
C6_Witness == Classified /\ pageScore(cdoc) > 10

\* The framework the claimed precedence yields
C7_Expected(doc) ==
    IF doc.generator \in GeneratorNames THEN doc.generator
    ELSE IF "__NEXT_DATA__" \in doc.hydration THEN "Next.js"
    ELSE IF "__NUXT__" \in doc.hydration THEN "Nuxt"
    ELSE Undefined

\* C7 (SpecClassify): framework is the generator tag's matched name when it
\* matched, else the first matching hydration pattern's framework (Next.js
\* before Nuxt), else undefined.
C7_FrameworkPrecedence ==
    Classified => cres.framework = C7_Expected(cdoc)

\* The documents C8 is about
C8_Substantial(doc) ==
    /\ doc.bodyTextLen > 500
    /\ ~doc.mountPoint
    /\ doc.hydration = {}
    /\ doc.scriptCount < 3

\* C8 as claimed (SpecClassify): such a document is never dynamic, whatever
\* the body's child count and the remaining signals.
C8_SubstantialNeverDynamic ==
    (Classified /\ C8_Substantial(cdoc)) => ~cres.isDynamic

\* The weight of the signals C8 leaves open
C8_RemainingWeight(doc) ==
    (IF doc.reactMarker THEN 2 ELSE 0) + (IF doc.ssrMarker THEN 1 ELSE 0)
    + (IF doc.ngVersion THEN 1 ELSE 0)
    + (IF doc.generator \in GeneratorNames THEN 2 ELSE 0)
    + (IF doc.noscriptHint THEN 1 ELSE 0)
    + (IF doc.bodyChildren = 0 THEN 3 ELSE 0)

\* C8 as amended (SpecClassify): such a document is static exactly when the
\* remaining signals that fired (React +2, server-rendered +1, Angular +1,
\* generator +2, noscript +1, body without child elements +3) weigh less
\* than 3.
C8_SubstantialStaticIffLight ==
    (Classified /\ C8_Substantial(cdoc)) =>
        (~cres.isDynamic) = (C8_RemainingWeight(cdoc) < 3)

\* C8 witness: a substantial document with child elements and a React marker
\* was classified static
C8_Witness ==
    /\ Classified /\ C8_Substantial(cdoc)
    /\ cdoc.bodyChildren > 0 /\ cdoc.reactMarker
    /\ ~cres.isDynamic

\* The sum of the weights C9 lists, read off the document
C9_WeightSum(doc) ==
    (IF doc.mountPoint THEN 3 ELSE 0)
    + 2 * Cardinality(doc.hydration)
    + (IF doc.reactMarker THEN 2 ELSE 0)
    + (IF doc.ssrMarker THEN 1 ELSE 0)
    + (IF doc.ngVersion THEN 1 ELSE 0)
    + (IF doc.generator \in GeneratorNames THEN 2 ELSE 0)
    + (IF doc.bodyTextLen < 100 /\ doc.scriptCount >= 3 THEN 2 ELSE 0)
    + (IF doc.scriptTotalLength > 50000 /\ doc.bodyTextLen < 500 THEN 2 ELSE 0)
    + (IF doc.noscriptHint THEN 1 ELSE 0)
    + (IF doc.bodyChildren = 0 \/ (doc.bodyChildren <= 2 /\ doc.bodyTextLen < 50)
       THEN 3 ELSE 0)

\* An empty body and no other signal
C9_OnlyEmptyBody(doc) ==
    /\ doc.bodyChildren = 0 /\ doc.bodyTextLen = 0
    /\ C9_WeightSum(doc) = 3

\* C9 (SpecClassify): the confidence is min(sum of the fired signals'
\* weights / 10, 1); an empty body alone gives confidence >= 0.3 and
\* isDynamic = true.
C9_ScoreIsWeightSum ==
    Classified =>
        /\ cres.confidence = Min(C9_WeightSum(cdoc) * 100, 1000)
        /\ C9_OnlyEmptyBody(cdoc) => (cres.confidence >= 300 /\ cres.isDynamic)

\* C9 witness: the empty-body document was classified dynamic
C9_Witness == Classified /\ C9_OnlyEmptyBody(cdoc) /\ cres.isDynamic

\* The anchors with a non-empty href, in document order
C10_Qualifying(anchors) ==
    SelectSeq(anchors, LAMBDA a : a.href \notin {Undefined, ""})

\* C10 (SpecLinks): the list returned by fetchLinks holds the anchors with a
\* non-empty href in document order, duplicates kept, cut to the default cap
\* of 10: min(n, 10) entries, the first ones.
C10_LinksTruncatedToCap ==
    lres # NoResult =>
        LET q == C10_Qualifying(ldoc)
            m == Min(Len(q), DefaultCap)
        IN /\ Len(lres.links) = m
           /\ \A i \in 1..m : lres.links[i].href = q[i].href

\* The cap a fetchPageSummary call asks for: the supplied count, 10 when none
C11_Cap(count) == IF count.given THEN count.n ELSE 10

C11_QualifyingImages(images) ==
    SelectSeq(images, LAMBDA img : img.src \notin {Undefined, ""})

\* C11 (SpecSummary): for every supplied cap c >= 0 (10 when none is
\* supplied) the links returned by fetchPageSummary are exactly the first
\* min(c, n) of the n anchors with a non-empty href, in document order with
\* duplicates kept, and the images likewise.
C11_SummaryTruncatedToCap ==
    sres # NoResult =>
        LET ql == C10_Qualifying(sdoc.anchors)
            ml == Min(C11_Cap(sdoc.linkCount), Len(ql))
            qi == C11_QualifyingImages(sdoc.images)
            mi == Min(C11_Cap(sdoc.imageCount), Len(qi))
        IN /\ Len(sres.links) = ml
           /\ \A i \in 1..ml : sres.links[i].href = ql[i].href
           /\ Len(sres.images) = mi
           /\ \A i \in 1..mi : sres.images[i].src = qi[i].src

\* The body text of the example: Hello\nWorld with a literal backslash-n, three
\* blank lines, End
C12_Example == <<"Hello", "BS", "n", "World", "NL", "NL", "NL", "NL", "End">>

\* A body text that is a word, a run of 3 or more newlines, and a word
C12_NewlineRun(text) ==
    /\ Len(text) >= 5
    /\ text[1] \notin Whitespace /\ text[Len(text)] \notin Whitespace
    /\ \A i \in 2..(Len(text) - 1) : text[i] = "NL"

\* C12 (SpecText): the example normalizes to Hello, newline, World, newline,
\* newline, End; and a run of 3 or more newlines between two words comes out
\* as exactly two newlines (one blank line), not as a single newline.
C12_BlankLinesCollapseToOne ==
    tres # NoResult =>
        /\ tdoc = C12_Example =>
              tres.text = <<"Hello", "NL", "World", "NL", "NL", "End">>
        /\ C12_NewlineRun(tdoc) =>
              tres.text = <<tdoc[1], "NL", "NL", tdoc[Len(tdoc)]>>

\* A literal escape sequence starts at position i of the text: backslash
\* followed by a quote, a backslash, n or t
C13_EscapeAt(text, i) ==
    /\ At(text, i) = "BS"
    /\ At(text, i + 1) \in {"DQ", "BS", "n", "t"}

\* C13 (SpecText): the text fetchPageText returns holds no hydration-variable
\* assignment statement (window.__VP_<UPPERCASE>__ = JSON.parse("...")) and no
\* literal escape sequence (backslash-quote, backslash-backslash, backslash-n,
\* backslash-t), whatever the body text.
C13_NoStatementNoEscape ==
    tres # NoResult =>
        \A i \in 1..Len(tres.text) :
            /\ vpMatchEnd(tres.text, i) = 0
            /\ ~C13_EscapeAt(tres.text, i)

\* The call of t is inside the network fetch of getStealthScript
C14_Fetching(t) == tasks[t].pc \in {"stealthFetch", "stealthText"}

\* C14 (Spec): the stealth-script body is fetched from the network at most
\* once: session creations that reach getStealthScript before a fetch has
\* completed share that fetch, so no two fetches are ever in flight together.
C14_StealthSingleFlight ==
    Cardinality({t \in Callers : C14_Fetching(t)}) <= 1

\* C15 (Spec): a failed stealth-script fetch is absorbed: no getBrowser or
\* getRenderedHtml call ends with the failure of the stealth-script fetch.
C15_StealthFailureAbsorbed ==
    \A t \in Callers : tasks[t].outcome # "error:stealthFetch"

\* The step in which a closeBrowser call of t returns
C19_Returns(t) ==
    /\ tasks'[t] # tasks[t]
    /\ tasks'[t].op = "closeBrowser"
    /\ tasks'[t].pc = "done"

\* C19 (Spec): when a closeBrowser call returns, the singleton is empty and no
\* engine process launched by the module is running, whatever getBrowser
\* calls run concurrently.
C19_NothingRunsAfterClose ==
    [][\A t \in Callers :
          C19_Returns(t) =>
              /\ browser' = NoBrowser
              /\ \A p \in 1..Len(procs') : procs'[p].status # "running"]_vars

\* C20 (Spec): every running engine process is referenced by the singleton,
\* or is held by the createBrowser call that launched it and is still on its
\* way to being stored: no setup failure after the launch leaves a running
\* process that nothing references.
C20_NoOrphanProcess ==
    \A p \in 1..Len(procs) :
        procs[p].status = "running" =>
            \/ browser = p
            \/ \E t \in Callers : InCreate(t) /\ tasks[t].inst = p

\* C16 (SpecTools): automatic rendering of dynamic pages.  A fetch_links or
\* fetch_page_text tool call that succeeds on a URL whose statically fetched
\* HTML the classifier marks isDynamic has extracted from the HTML the
\* headless browser rendered.
C16_ToolsRenderDynamicPages ==
    \A t \in Callers :
        ( /\ tasks[t].pc = "done"
          /\ tasks[t].outcome = "ok"
          /\ tasks[t].tool \in {"fetch_links", "fetch_page_text"}
          /\ detectPageType(DocOf(tasks[t].html)).isDynamic )
        => tasks[t].finalHtml = "rendered"

\* C17 (SpecRender): the navigation of a render call is bounded by the
\* configured timeout: the timeout handed to page.goto is the timeout of the
\* configuration passed to the call (when none is configured, the default or
\* nothing at all).
C17_NavigationUsesConfiguredTimeout ==
    \A t \in Callers :
        tasks[t].pc = "goto" =>
            \/ tasks[t].navTimeout = mergedTimeout(tasks[t].timeout)
            \/ ~tasks[t].timeout.given /\ ~tasks[t].navTimeout.given

\* The step in which the caller t starts a call of `op`
C18_Calls(t, op) ==
    /\ tasks[t].pc \in {"idle", "done"}
    /\ calls' = calls + 1
    /\ tasks'[t].op = op

\* The singleton is empty or its process is disconnected
C18_NoLiveSession == browser = NoBrowser \/ ~connected(browser)

\* What C18 says of one step of a sequential series of calls
C18_Step ==
    /\ \A t \in Callers :
          C18_Calls(t, "getBrowser") =>
              IF C18_NoLiveSession
              THEN tasks'[t].pc = "launch"
              ELSE tasks'[t].pc = "reusePage" /\ tasks'[t].inst = browser
    /\ Len(procs') > Len(procs) => C18_NoLiveSession
    /\ \A i \in 1..Len(pages') : pages'[i].returns <= 1
    /\ (browser # NoBrowser /\ browser' = NoBrowser) =>
          \E t \in Callers : tasks[t].op = "closeBrowser" /\ tasks[t].pc = "closed"
    /\ \A t \in Callers :
          (C18_Calls(t, "closeBrowser") /\ browser = NoBrowser) =>
              /\ tasks'[t].pc = "done"
              /\ UNCHANGED <<browser, procs, pages>>

\* C18 (SpecSeq): over a sequential series of getBrowser / closeBrowser calls
\* and disconnects, a getBrowser call launches a process exactly when the
\* singleton is empty or its process is disconnected and otherwise opens a
\* page on the existing process; no page is returned by two calls; the
\* singleton becomes empty only when a closeBrowser call completes, and the next
\* getBrowser then launches again; closeBrowser on an empty singleton changes
\* nothing.
C18_SequentialLifecycle == [][C18_Step]_vars

\* C18 witness: getBrowser, closeBrowser, getBrowser, getBrowser: the second
\* process was launched after the first was closed, and the last call reused
\* it and returned a third page
C18_Witness ==
    /\ Len(procs) = 2
    /\ procs[1].status = "closed"
    /\ browser = 2 /\ connected(2)
    /\ tasks[SeqCaller].pc = "done"
    /\ tasks[SeqCaller].op = "getBrowser"
    /\ tasks[SeqCaller].outcome = "ok"
    /\ tasks[SeqCaller].page = 3
    /\ \A i \in 1..3 : pages[i].returns = 1

=============================================================================
